---- MODULE Spec2Model ----
(***************************************************************************)
(* Model of the parking-lot allocator (class ParkingLot, class Vehicle)    *)
(* and of the handlers of AutomatedParkingLotSystem that drive it.         *)
(*                                                                         *)
(* Time is counted in ticks of 18 seconds (TicksPerHour ticks per hour),   *)
(* so that 0.99 h and 0.005 h are whole numbers of ticks; on such          *)
(* timestamps the float arithmetic of get_parking_fee is exact.  Money is  *)
(* counted in cents.  Presentation-only fields of a Vehicle (owner_name,   *)
(* color) take no part in any operation of ParkingLot and are left out.    *)
(***************************************************************************)
EXTENDS Integers, Sequences, FiniteSets, TLC

\* ---------------------------------------------------------------- bounds
Capacity == 3
MaxAdmissions == 5

\* ------------------------------------------------------------- constants
TicksPerHour == 200
NoTime == -1
NoSlot == 0

\* wall-clock readings datetime.now() returns (ticks): start, 1 h 18 s, 1.5 h
Times == {0, 201, 300}

VehicleType == {"Car", "Bike", "Truck", "SUV"}

\* the type chosen in the park controls; the demo vehicles bring Car, Bike
\* and Truck
ParkTypes == {"SUV"}

\* identifiers quick_park's random generator is drawn from
RandomIds == {"ABC123", "NEW111"}

\* raw texts of the vehicle-id entry boxes
EntryTexts == {"", "  ", "abc123", " NEW111 "}

\* demo_vehicles of initialize_demo_vehicles
demo_vehicles ==
    << [vehicle_id |-> "ABC123", vehicle_type |-> "Car"],
       [vehicle_id |-> "XYZ789", vehicle_type |-> "Bike"],
       [vehicle_id |-> "TRK456", vehicle_type |-> "Truck"],
       [vehicle_id |-> "SUV321", vehicle_type |-> "SUV"] >>

\* .strip().upper() on the texts that can be in an entry box
strip_upper(text) ==
    CASE text = "" -> ""
      [] text = "  " -> ""
      [] text = "abc123" -> "ABC123"
      [] text = " NEW111 " -> "NEW111"
      [] OTHER -> text

\* ------------------------------------------------------------ Vehicle
\* None in a slot cell
None == [oid |-> 0, vehicle_id |-> "", vehicle_type |-> "None",
         entry_time |-> NoTime, slot_number |-> NoSlot]

\* Vehicle.__init__ ; oid is the identity of the Python object
Vehicle(oid, vehicle_id, vehicle_type) ==
    [oid |-> oid, vehicle_id |-> vehicle_id, vehicle_type |-> vehicle_type,
     entry_time |-> NoTime, slot_number |-> NoSlot]

rates == [Car |-> 200, Bike |-> 100, Truck |-> 300, SUV |-> 250]

Max(a, b) == IF a >= b THEN a ELSE b

\* (hours_parked + 0.99) // 1, on ticks
round_up_hours(ticks) == (ticks + (99 * TicksPerHour) \div 100) \div TicksPerHour

\* variant of get_parking_fee: no minimum of one hour
get_parking_fee_no_minimum(vehicle, exit_time) ==
    IF vehicle.entry_time = NoTime
    THEN 0
    ELSE LET hours_parked == exit_time - vehicle.entry_time
             rate == IF vehicle.vehicle_type \in DOMAIN rates
                     THEN rates[vehicle.vehicle_type] ELSE 200
         IN  round_up_hours(hours_parked) * rate

get_parking_fee(vehicle, exit_time) ==
    IF vehicle.entry_time = NoTime
    THEN 0
    ELSE LET hours_parked == Max(TicksPerHour, exit_time - vehicle.entry_time)
             rate == IF vehicle.vehicle_type \in DOMAIN rates
                     THEN rates[vehicle.vehicle_type] ELSE 200
         IN  round_up_hours(hours_parked) * rate

\* ------------------------------------------------------------ ParkingLot
VARIABLES capacity, slots, vehicles, revenue, total_vehicles, now, phase, last

vars == <<capacity, slots, vehicles, revenue, total_vehicles, now, phase, last>>

\* the ParkingLot object as a value
Lot == [capacity |-> capacity, slots |-> slots, vehicles |-> vehicles,
        revenue |-> revenue, total_vehicles |-> total_vehicles]

\* variant of is_full: the index is counted against the capacity
is_full_by_index(lot) == Cardinality(DOMAIN lot.vehicles) >= lot.capacity

is_full(lot) == \A i \in DOMAIN lot.slots : lot.slots[i] # None

is_empty(lot) == \A i \in DOMAIN lot.slots : lot.slots[i] = None

\* enumerate(self.slots): the 1-based cell numbers in list order
cell_numbers(lot) == [i \in 1..Len(lot.slots) |-> i]

\* [i + 1 for i, slot in enumerate(self.slots) if slot is None]
get_available_slots(lot) ==
    SelectSeq(cell_numbers(lot), LAMBDA i : lot.slots[i] = None)

\* [i + 1 for i, slot in enumerate(self.slots) if slot is not None]
get_occupied_slots(lot) ==
    SelectSeq(cell_numbers(lot), LAMBDA i : lot.slots[i] # None)

\* variant of get_occupancy_rate: the index is counted, not the cells
get_occupancy_rate_by_index(lot) ==
    IF lot.capacity = 0
    THEN [raised |-> "ZeroDivisionError", num |-> 0, den |-> 1]
    ELSE [raised |-> "", num |-> Cardinality(DOMAIN lot.vehicles) * 100,
          den |-> lot.capacity]

\* (occupied / self.capacity) * 100, as the fraction num / den
get_occupancy_rate(lot) ==
    IF lot.capacity = 0
    THEN [raised |-> "ZeroDivisionError", num |-> 0, den |-> 1]
    ELSE [raised |-> "", num |-> Len(get_occupied_slots(lot)) * 100,
          den |-> lot.capacity]

\* len(self.vehicles)
get_total_vehicles_parked(lot) == Cardinality(DOMAIN lot.vehicles)

\* the elements of a list
Range(seq) == {seq[i] : i \in DOMAIN seq}

\* variant of scan: the scan runs from the last cell down
scan_from_top(lot, n) ==
    LET free == {i \in n..lot.capacity : lot.slots[i] = None}
    IN IF free = {} THEN NoSlot ELSE CHOOSE i \in free : \A j \in free : j <= i

\* variant of scan: the cell is chosen round robin from the admission counter
scan_round_robin(lot, n) ==
    IF lot.capacity < 1 THEN NoSlot ELSE (lot.total_vehicles % lot.capacity) + 1

\* for slot_number in range(capacity): if slots[slot_number] is None
\* the 1-based number of the cell the scan stops at, NoSlot when it runs out
RECURSIVE scan(_, _)
scan(lot, n) ==
    IF n > lot.capacity THEN NoSlot
    ELSE IF lot.slots[n] = None THEN n
    ELSE scan(lot, n + 1)

\* dict item assignment vehicles[key] = value
dict_set(d, key, value) ==
    [k \in DOMAIN d \cup {key} |-> IF k = key THEN value ELSE d[k]]

\* del vehicles[key]
dict_del(d, key) == [k \in DOMAIN d \ {key} |-> d[k]]

\* variant of park_vehicle: the admission is counted before the full check
park_vehicle_counts_attempts(lot, vehicle, clock) ==
    LET counted == [lot EXCEPT !.total_vehicles = lot.total_vehicles + 1] IN
    IF is_full(lot)
    THEN [lot |-> counted, raised |-> "ParkingLotFullError", slot |-> NoSlot,
          vehicle |-> vehicle, line |-> 106]
    ELSE LET n == scan(lot, 1)
             v == [vehicle EXCEPT !.slot_number = n, !.entry_time = clock]
         IN [lot |-> [counted EXCEPT
                         !.slots = [lot.slots EXCEPT ![n] = v],
                         !.vehicles = dict_set(lot.vehicles, v.vehicle_id, v)],
             raised |-> "", slot |-> n, vehicle |-> v, line |-> 115]

\* variant of park_vehicle: the record keeps the 0-based loop index
park_vehicle_zero_based(lot, vehicle, clock) ==
    IF is_full(lot)
    THEN [lot |-> lot, raised |-> "ParkingLotFullError", slot |-> NoSlot,
          vehicle |-> vehicle, line |-> 106]
    ELSE LET n == scan(lot, 1)
             v == [vehicle EXCEPT !.slot_number = n - 1, !.entry_time = clock]
         IN [lot |-> [lot EXCEPT
                         !.slots = [lot.slots EXCEPT ![n] = v],
                         !.vehicles = dict_set(lot.vehicles, v.vehicle_id, v),
                         !.total_vehicles = lot.total_vehicles + 1],
             raised |-> "", slot |-> n, vehicle |-> v, line |-> 115]

\* variant of park_vehicle: the counter is set to the number of parked vehicles
park_vehicle_counts_parked(lot, vehicle, clock) ==
    IF is_full(lot)
    THEN [lot |-> lot, raised |-> "ParkingLotFullError", slot |-> NoSlot,
          vehicle |-> vehicle, line |-> 106]
    ELSE LET n == scan(lot, 1)
             v == [vehicle EXCEPT !.slot_number = n, !.entry_time = clock]
             index == dict_set(lot.vehicles, v.vehicle_id, v)
         IN [lot |-> [lot EXCEPT
                         !.slots = [lot.slots EXCEPT ![n] = v],
                         !.vehicles = index,
                         !.total_vehicles = Cardinality(DOMAIN index)],
             raised |-> "", slot |-> n, vehicle |-> v, line |-> 115]

\* variant of park_vehicle: the admission is not counted
park_vehicle_uncounted(lot, vehicle, clock) ==
    IF is_full(lot)
    THEN [lot |-> lot, raised |-> "ParkingLotFullError", slot |-> NoSlot,
          vehicle |-> vehicle, line |-> 106]
    ELSE LET n == scan(lot, 1)
             v == [vehicle EXCEPT !.slot_number = n, !.entry_time = clock]
         IN [lot |-> [lot EXCEPT
                         !.slots = [lot.slots EXCEPT ![n] = v],
                         !.vehicles = dict_set(lot.vehicles, v.vehicle_id, v)],
             raised |-> "", slot |-> n, vehicle |-> v, line |-> 115]

\* ParkingLot.park_vehicle: the lot after the call, what it raised,
\* what it returned, the vehicle object after the call and the source line
\* of the raise or return that ended the call
park_vehicle(lot, vehicle, clock) ==
    IF is_full(lot)
    THEN [lot |-> lot, raised |-> "ParkingLotFullError", slot |-> NoSlot,
          vehicle |-> vehicle, line |-> 106]
    ELSE LET n == scan(lot, 1) IN
         IF n = NoSlot
         THEN [lot |-> lot, raised |-> "ParkingLotFullError", slot |-> NoSlot,
               vehicle |-> vehicle, line |-> 117]
         ELSE LET v == [vehicle EXCEPT !.slot_number = n, !.entry_time = clock]
              IN [lot |-> [lot EXCEPT
                              !.slots = [lot.slots EXCEPT ![n] = v],
                              !.vehicles = dict_set(lot.vehicles, v.vehicle_id, v),
                              !.total_vehicles = lot.total_vehicles + 1],
                  raised |-> "", slot |-> n, vehicle |-> v, line |-> 115]

\* variant of remove_vehicle: a missing identifier is passed over in silence
remove_vehicle_pop_default(lot, vehicle_id, clock) ==
    IF vehicle_id \notin DOMAIN lot.vehicles
    THEN [lot |-> lot, raised |-> "", vehicle |-> None, fee |-> 0]
    ELSE LET vehicle == lot.vehicles[vehicle_id]
             fee == get_parking_fee(vehicle, clock)
         IN [lot |-> [lot EXCEPT !.revenue = lot.revenue + fee,
                                 !.slots = [lot.slots EXCEPT ![vehicle.slot_number] = None],
                                 !.vehicles = dict_del(lot.vehicles, vehicle_id)],
             raised |-> "", vehicle |-> vehicle, fee |-> fee]

\* variant of remove_vehicle: every cell holding the identifier is emptied
remove_vehicle_clears_by_id(lot, vehicle_id, clock) ==
    IF vehicle_id \notin DOMAIN lot.vehicles
    THEN [lot |-> lot, raised |-> "ValueError", vehicle |-> None, fee |-> 0]
    ELSE LET vehicle == lot.vehicles[vehicle_id]
             fee == get_parking_fee(vehicle, clock)
         IN [lot |-> [lot EXCEPT !.revenue = lot.revenue + fee,
                                 !.slots = [i \in DOMAIN lot.slots |->
                                              IF lot.slots[i].vehicle_id = vehicle_id
                                              THEN None ELSE lot.slots[i]],
                                 !.vehicles = dict_del(lot.vehicles, vehicle_id)],
             raised |-> "", vehicle |-> vehicle, fee |-> fee]

\* variant of remove_vehicle: the cell is left as it is
remove_vehicle_keeps_cell(lot, vehicle_id, clock) ==
    IF vehicle_id \notin DOMAIN lot.vehicles
    THEN [lot |-> lot, raised |-> "ValueError", vehicle |-> None, fee |-> 0]
    ELSE LET vehicle == lot.vehicles[vehicle_id]
             fee == get_parking_fee(vehicle, clock)
         IN [lot |-> [lot EXCEPT !.revenue = lot.revenue + fee,
                                 !.vehicles = dict_del(lot.vehicles, vehicle_id)],
             raised |-> "", vehicle |-> vehicle, fee |-> fee]

\* ParkingLot.remove_vehicle
remove_vehicle(lot, vehicle_id, clock) ==
    IF vehicle_id \notin DOMAIN lot.vehicles
    THEN [lot |-> lot, raised |-> "ValueError", vehicle |-> None, fee |-> 0]
    ELSE LET vehicle == lot.vehicles[vehicle_id]
             fee == get_parking_fee(vehicle, clock)
             slots1 == IF vehicle.slot_number # NoSlot
                       THEN [lot.slots EXCEPT ![vehicle.slot_number] = None]
                       ELSE lot.slots
         IN [lot |-> [lot EXCEPT !.revenue = lot.revenue + fee,
                                 !.slots = slots1,
                                 !.vehicles = dict_del(lot.vehicles, vehicle_id)],
             raised |-> "", vehicle |-> vehicle, fee |-> fee]

\* variant of reset: the statistics are reset with the cells
reset_zeroes_statistics(lot) ==
    [lot EXCEPT !.slots = [i \in 1..lot.capacity |-> None],
                !.vehicles = <<>>,
                !.revenue = 0,
                !.total_vehicles = 0]

\* ParkingLot.reset
reset(lot) ==
    [lot EXCEPT !.slots = [i \in 1..lot.capacity |-> None],
                !.vehicles = <<>>]

\* ------------------------------------------------- AutomatedParkingLotSystem
\* what the last handler did: its name, its outcome, the identifier it was
\* about, and the slot number and fee it got back
Outcome(op, status, vehicle_id, slot, fee) ==
    [op |-> op, status |-> status, vehicle_id |-> vehicle_id, slot |-> slot,
     fee |-> fee]

SetLot(lot) ==
    /\ capacity' = lot.capacity
    /\ slots' = lot.slots
    /\ vehicles' = lot.vehicles
    /\ revenue' = lot.revenue
    /\ total_vehicles' = lot.total_vehicles

\* ParkingLot.__init__ ; [None] * capacity is the empty list for capacity < 1
ParkingLot(cap) ==
    [capacity |-> cap, slots |-> [i \in 1..cap |-> None], vehicles |-> <<>>,
     revenue |-> 0, total_vehicles |-> 0]

\* the lot of the application: ParkingLot(capacity=12), scaled to Capacity
Init ==
    /\ capacity = ParkingLot(Capacity).capacity
    /\ slots = ParkingLot(Capacity).slots
    /\ vehicles = ParkingLot(Capacity).vehicles
    /\ revenue = ParkingLot(Capacity).revenue
    /\ total_vehicles = ParkingLot(Capacity).total_vehicles
    /\ now \in Times
    /\ phase = "init"
    /\ last = Outcome("__init__", "ok", "", NoSlot, 0)

\* the loop of initialize_demo_vehicles from entry i on
RECURSIVE demo_loop(_, _, _)
demo_loop(lot, i, clock) ==
    IF i > Len(demo_vehicles) THEN lot
    ELSE LET r == park_vehicle(lot, Vehicle(lot.total_vehicles + 1,
                                            demo_vehicles[i].vehicle_id,
                                            demo_vehicles[i].vehicle_type), clock)
         IN IF r.raised # "" THEN lot ELSE demo_loop(r.lot, i + 1, clock)

initialize_demo_vehicles ==
    /\ phase = "init"
    /\ SetLot(demo_loop(Lot, 1, now))
    /\ phase' = "running"
    /\ last' = Outcome("initialize_demo_vehicles", "ok", "", NoSlot, 0)
    /\ UNCHANGED now

\* datetime.now() moves on between two handlers
clock_advance ==
    /\ now' \in {t \in Times : t > now}
    /\ UNCHANGED <<capacity, slots, vehicles, revenue, total_vehicles, phase, last>>

\* the try block around ParkingLot.park_vehicle shared by both park handlers
park_try(op, vehicle_id, vehicle_type) ==
    LET r == park_vehicle(Lot, Vehicle(total_vehicles + 1, vehicle_id, vehicle_type), now)
    IN /\ SetLot(r.lot)
       /\ last' = Outcome(op, IF r.raised = "" THEN "parked" ELSE r.raised,
                          vehicle_id, r.slot, 0)

\* AutomatedParkingLotSystem.park_vehicle
App_park_vehicle(text, vehicle_type) ==
    /\ phase = "running"
    /\ LET vehicle_id == strip_upper(text) IN
       IF vehicle_id = ""
       THEN /\ last' = Outcome("park_vehicle", "no_id", vehicle_id, NoSlot, 0)
            /\ UNCHANGED <<capacity, slots, vehicles, revenue, total_vehicles>>
       ELSE IF vehicle_id \in DOMAIN vehicles
       THEN /\ last' = Outcome("park_vehicle", "already_parked", vehicle_id,
                               NoSlot, 0)
            /\ UNCHANGED <<capacity, slots, vehicles, revenue, total_vehicles>>
       ELSE /\ total_vehicles < MaxAdmissions \/ is_full(Lot)
            /\ park_try("park_vehicle", vehicle_id, vehicle_type)
    /\ UNCHANGED <<now, phase>>

\* AutomatedParkingLotSystem.quick_park
quick_park(vehicle_id, vehicle_type) ==
    /\ phase = "running"
    /\ total_vehicles < MaxAdmissions \/ is_full(Lot)
    /\ park_try("quick_park", vehicle_id, vehicle_type)
    /\ UNCHANGED <<now, phase>>

\* AutomatedParkingLotSystem.remove_vehicle
App_remove_vehicle(text) ==
    /\ phase = "running"
    /\ LET vehicle_id == strip_upper(text) IN
       IF vehicle_id = ""
       THEN /\ last' = Outcome("remove_vehicle", "no_id", vehicle_id, NoSlot, 0)
            /\ UNCHANGED <<capacity, slots, vehicles, revenue, total_vehicles>>
       ELSE LET r == remove_vehicle(Lot, vehicle_id, now) IN
            /\ SetLot(r.lot)
            /\ last' = Outcome("remove_vehicle",
                               IF r.raised = "" THEN "removed" ELSE r.raised,
                               vehicle_id, r.vehicle.slot_number, r.fee)
    /\ UNCHANGED <<now, phase>>

\* variant of first_key: the identifier is read from the first occupied cell
first_key_from_slots(lot) ==
    LET occupied == get_occupied_slots(lot)
    IN IF occupied = <<>> THEN "" ELSE lot.slots[occupied[1]].vehicle_id

\* list(self.parking_lot.vehicles.keys())[0]: a key of the index (the
\* insertion order of the dict is not kept by the model)
first_key(lot) == CHOOSE k \in DOMAIN lot.vehicles : TRUE

\* one pass through the body of the while loop of emergency_clear: the
\* lot after it, and what remove_vehicle raised into `except Exception: pass`
clear_body(lot, clock) ==
    LET vehicle_id == first_key(lot)
        r == remove_vehicle(lot, vehicle_id, clock)
    IN [lot |-> r.lot, swallowed |-> r.raised, vehicle_id |-> vehicle_id,
        slot |-> r.vehicle.slot_number, fee |-> r.fee]

\* while self.parking_lot.vehicles: ... run to its end: the lot it leaves
\* and the number of passes; a pass that leaves the lot as it found it is
\* repeated for ever (spins), and the loop never ends
RECURSIVE clear_loop(_, _, _)
clear_loop(lot, clock, iterations) ==
    IF DOMAIN lot.vehicles = {}
    THEN [lot |-> lot, iterations |-> iterations, spins |-> FALSE]
    ELSE LET b == clear_body(lot, clock) IN
         IF b.lot = lot
         THEN [lot |-> lot, iterations |-> iterations + 1, spins |-> TRUE]
         ELSE clear_loop(b.lot, clock, iterations + 1)

\* AutomatedParkingLotSystem.emergency_clear ; the handler returns only when
\* its loop ends
emergency_clear(response) ==
    /\ phase = "running"
    /\ IF is_empty(Lot)
       THEN /\ last' = Outcome("emergency_clear", "already_empty", "", NoSlot, 0)
            /\ UNCHANGED <<capacity, slots, vehicles, revenue, total_vehicles>>
       ELSE IF response
       THEN /\ ~clear_loop(Lot, now, 0).spins
            /\ SetLot(clear_loop(Lot, now, 0).lot)
            /\ last' = Outcome("emergency_clear", "cleared", "", NoSlot, 0)
       ELSE /\ last' = Outcome("emergency_clear", "declined", "", NoSlot, 0)
            /\ UNCHANGED <<capacity, slots, vehicles, revenue, total_vehicles>>
    /\ UNCHANGED <<now, phase>>

\* AutomatedParkingLotSystem.reset_parking_lot
reset_parking_lot(response) ==
    /\ phase = "running"
    /\ IF response
       THEN /\ SetLot(reset(Lot))
            /\ last' = Outcome("reset_parking_lot", "reset", "", NoSlot, 0)
       ELSE /\ last' = Outcome("reset_parking_lot", "declined", "", NoSlot, 0)
            /\ UNCHANGED <<capacity, slots, vehicles, revenue, total_vehicles>>
    /\ UNCHANGED <<now, phase>>

\* AutomatedParkingLotSystem.update_real_time_info, the status label of the
\* one-second timer: FULL, EMPTY or "<parked>/<capacity>"
update_real_time_info ==
    /\ phase = "running"
    /\ last' = Outcome("update_real_time_info",
                       IF is_full(Lot) THEN "FULL"
                       ELSE IF is_empty(Lot) THEN "EMPTY"
                       ELSE "PARTIAL",
                       "", NoSlot, 0)
    /\ UNCHANGED <<capacity, slots, vehicles, revenue, total_vehicles, now, phase>>

\* the identifiers on_slot_selected can put into the remove entry box
SlotIds == {slots[i].vehicle_id : i \in Range(get_occupied_slots(Lot))}

Next ==
    \/ initialize_demo_vehicles
    \/ clock_advance
    \/ \E text \in EntryTexts, t \in ParkTypes : App_park_vehicle(text, t)
    \/ \E id \in RandomIds, t \in ParkTypes : quick_park(id, t)
    \/ \E text \in EntryTexts \cup SlotIds : App_remove_vehicle(text)
    \/ \E response \in BOOLEAN : emergency_clear(response)
    \/ \E response \in BOOLEAN : reset_parking_lot(response)
    \/ update_real_time_info

Spec == Init /\ [][Next]_vars

\* capacities a caller can hand to ParkingLot.__init__
CtorCapacities == {-1, 0, 1, 2}

\* a ParkingLot constructed with any of these capacities
InitCtor ==
    /\ \E cap \in CtorCapacities :
          /\ capacity = ParkingLot(cap).capacity
          /\ slots = ParkingLot(cap).slots
          /\ vehicles = ParkingLot(cap).vehicles
          /\ revenue = ParkingLot(cap).revenue
          /\ total_vehicles = ParkingLot(cap).total_vehicles
    /\ now \in Times
    /\ phase = "init"
    /\ last = Outcome("__init__", "ok", "", NoSlot, 0)

SpecCtor == InitCtor /\ [][Next]_vars

\* wall-clock readings when the clock can also be set back
WallTimes == {0, 201, 300, 501}

\* the application just constructed at a late hour, with a lot that has
\* room for all its demo vehicles, one of each type
InitFee ==
    /\ now \in {201, 300}
    /\ LET lot == demo_loop(ParkingLot(Len(demo_vehicles)), 1, now) IN
          /\ capacity = lot.capacity
          /\ slots = lot.slots
          /\ vehicles = lot.vehicles
          /\ revenue = lot.revenue
          /\ total_vehicles = lot.total_vehicles
    /\ phase = "running"
    /\ last = Outcome("initialize_demo_vehicles", "ok", "", NoSlot, 0)

\* datetime.now() is the wall clock: it moves on, and it can be set back
clock_set ==
    /\ now' \in WallTimes \ {now}
    /\ UNCHANGED <<capacity, slots, vehicles, revenue, total_vehicles, phase, last>>

\* releases only: every record released was parked at construction
NextFee ==
    \/ clock_set
    \/ \E text \in EntryTexts \cup SlotIds : App_remove_vehicle(text)

SpecFee == InitFee /\ [][NextFee]_vars

\* -------------------------------------------- emergency_clear step by step
\* AutomatedParkingLotSystem.emergency_clear up to the head of its while
\* loop; phase "clearing" is the handler standing at `while ...vehicles:`
emergency_clear_enter(response) ==
    /\ phase = "running"
    /\ IF is_empty(Lot)
       THEN /\ last' = Outcome("emergency_clear", "already_empty", "", NoSlot, 0)
            /\ phase' = phase
       ELSE IF response
       THEN /\ last' = Outcome("emergency_clear", "confirmed", "", NoSlot, 0)
            /\ phase' = "clearing"
       ELSE /\ last' = Outcome("emergency_clear", "declined", "", NoSlot, 0)
            /\ phase' = phase
    /\ UNCHANGED <<capacity, slots, vehicles, revenue, total_vehicles, now>>

\* the loop condition is true: one pass through the body, an exception of
\* remove_vehicle swallowed
emergency_clear_iteration ==
    /\ phase = "clearing"
    /\ DOMAIN vehicles # {}
    /\ LET b == clear_body(Lot, now) IN
          /\ SetLot(b.lot)
          /\ last' = Outcome("emergency_clear",
                             IF b.swallowed = "" THEN "iteration" ELSE b.swallowed,
                             b.vehicle_id, b.slot, b.fee)
    /\ UNCHANGED <<now, phase>>

\* the loop condition is false: update_display, the "Cleared" dialog, return
emergency_clear_exit ==
    /\ phase = "clearing"
    /\ DOMAIN vehicles = {}
    /\ last' = Outcome("emergency_clear", "cleared", "", NoSlot, 0)
    /\ phase' = "running"
    /\ UNCHANGED <<capacity, slots, vehicles, revenue, total_vehicles, now>>

NextClear ==
    \/ initialize_demo_vehicles
    \/ clock_advance
    \/ \E text \in EntryTexts, t \in ParkTypes : App_park_vehicle(text, t)
    \/ \E id \in RandomIds, t \in ParkTypes : quick_park(id, t)
    \/ \E text \in EntryTexts \cup SlotIds : App_remove_vehicle(text)
    \/ \E response \in BOOLEAN : emergency_clear_enter(response)
    \/ emergency_clear_iteration
    \/ emergency_clear_exit
    \/ \E response \in BOOLEAN : reset_parking_lot(response)
    \/ update_real_time_info

\* the handler runs on: a loop pass or the loop exit that can be taken is taken
SpecClear ==
    /\ Init
    /\ [][NextClear]_vars
    /\ WF_vars(emergency_clear_iteration)
    /\ WF_vars(emergency_clear_exit)

\* ================================================================ claims
lotvars == <<capacity, slots, vehicles, revenue, total_vehicles>>

\* every identifier a handler can be given
AllIds == RandomIds \cup {strip_upper(text) : text \in EntryTexts}
                    \cup {demo_vehicles[i].vehicle_id : i \in DOMAIN demo_vehicles}

\* a step of a handler (the clock does not move inside a handler, and
\* clock_advance moves nothing else)
HandlerStep == now' = now

\* a step of one of the two admitting handlers for identifier id
AdmitStep(id) ==
    /\ HandlerStep
    /\ last'.op \in {"park_vehicle", "quick_park"}
    /\ last'.vehicle_id = id
    /\ id # ""

\* an admitting step that calls ParkingLot.park_vehicle for identifier id:
\* quick_park always does, the park handler does when id is not in the index
ParkCall(id) ==
    /\ AdmitStep(id)
    /\ last'.op = "quick_park" \/ id \notin DOMAIN vehicles

\* a step of the releasing handler for identifier id
ReleaseStep(id) ==
    /\ HandlerStep
    /\ last'.op = "remove_vehicle"
    /\ last'.vehicle_id = id
    /\ id # ""

Min(S) == CHOOSE i \in S : \A j \in S : i <= j

\* ceil(max(elapsed, 1.0)) on ticks
ceil_billed_hours(ticks) ==
    (Max(ticks, TicksPerHour) + TicksPerHour - 1) \div TicksPerHour

\* C1: in every reachable state the index and the slot table are in exact
\* sync: as many index entries as occupied cells, and every record in an
\* occupied cell is the record the index holds under its identifier.
C1_IndexSlotsInSync ==
    /\ Cardinality(DOMAIN vehicles) = Len(get_occupied_slots(Lot))
    /\ \A i \in Range(get_occupied_slots(Lot)) :
          /\ slots[i].vehicle_id \in DOMAIN vehicles
          /\ vehicles[slots[i].vehicle_id] = slots[i]

\* C2: admitting an identifier that is already in the index fails with the
\* duplicate-identifier error and leaves slots, index, admissions and
\* revenue as they were.
C2_DuplicateAdmitRejected ==
    [][\A id \in AllIds :
          (AdmitStep(id) /\ id \in DOMAIN vehicles)
              => (last'.status = "already_parked" /\ UNCHANGED lotvars)]_vars

\* C3: a successful admit returns and fills the lowest-numbered cell that
\* was free before the call.
C3_FirstFit ==
    [][\A id \in AllIds :
          (AdmitStep(id) /\ last'.status = "parked")
              => /\ last'.slot = Min(Range(get_available_slots(Lot)))
                 /\ slots[last'.slot] = None
                 /\ slots'[last'.slot].vehicle_id = id
                 /\ slots'[last'.slot].slot_number = last'.slot]_vars

\* C3 witness: an admit has just taken slot 1, freed by a release, while a
\* higher slot was free as well
C3_Witness ==
    /\ last.status = "parked"
    /\ last.slot = 1
    /\ get_available_slots(Lot) # <<>>
    /\ total_vehicles > Capacity

\* C4: the fee of a release is ceil(max(elapsed hours, 1)) times the hourly
\* rate of the category.
C4_FeeIsCeiling ==
    [][\A id \in AllIds :
          (ReleaseStep(id) /\ last'.status = "removed")
              => last'.fee = ceil_billed_hours(now - vehicles[id].entry_time)
                                * rates[vehicles[id].vehicle_type]]_vars

\* C5: emergency clear leaves revenue and the admission counter unchanged.
C5_ClearAccruesNothing ==
    [][(HandlerStep /\ last'.op = "emergency_clear")
          => (revenue' = revenue /\ total_vehicles' = total_vehicles)]_vars

\* C6: after a confirmed emergency clear every cell is empty, the index is
\* empty and is_empty() holds.
C6_ClearLeavesLotEmpty ==
    (last.op = "emergency_clear" /\ last.status = "cleared")
        => (is_empty(Lot) /\ DOMAIN vehicles = {}
            /\ \A i \in 1..capacity : slots[i] = None)

\* C7: an admit on a full lot fails with the lot-full error, changes nothing
\* of the lot, and the rejected vehicle gets no slot number or arrival time.
C7_FullLotRejects ==
    [][\A id \in AllIds :
          (ParkCall(id) /\ is_full(Lot))
              => /\ last'.status = "ParkingLotFullError"
                 /\ last'.slot = NoSlot
                 /\ UNCHANGED lotvars
                 /\ \A t \in VehicleType :
                       LET vehicle == Vehicle(total_vehicles + 1, id, t)
                       IN park_vehicle(Lot, vehicle, now).vehicle = vehicle]_vars

C7_Witness ==
    /\ last.op = "quick_park"
    /\ last.status = "ParkingLotFullError"
    /\ is_full(Lot)
    /\ total_vehicles > Capacity

\* C8: a release of an identifier that is not in the index fails with
\* ValueError and leaves slots, index, revenue and admissions unchanged.
C8_UnknownReleaseRejected ==
    [][\A id \in AllIds :
          (ReleaseStep(id) /\ id \notin DOMAIN vehicles)
              => (last'.status = "ValueError" /\ UNCHANGED lotvars)]_vars

C8_Witness ==
    /\ last.op = "remove_vehicle"
    /\ last.status = "ValueError"
    /\ ~is_empty(Lot)

\* C9: a successful release of k adds exactly the returned fee to revenue,
\* empties exactly the cell the record occupied, removes k from the index
\* and leaves every other cell, every other index entry, the admission
\* counter and the capacity unchanged.
C9_ReleaseFrame ==
    [][\A k \in AllIds :
          (ReleaseStep(k) /\ k \in DOMAIN vehicles)
              => /\ last'.status = "removed"
                 /\ revenue' = revenue + last'.fee
                 /\ slots[vehicles[k].slot_number] = vehicles[k]
                 /\ slots' = [slots EXCEPT ![vehicles[k].slot_number] = None]
                 /\ DOMAIN vehicles' = DOMAIN vehicles \ {k}
                 /\ \A j \in DOMAIN vehicles' : vehicles'[j] = vehicles[j]
                 /\ total_vehicles' = total_vehicles
                 /\ capacity' = capacity]_vars

\* C9 witness: a release has happened while another record with the same
\* identifier stays in its cell
C9_Witness ==
    /\ last.op = "remove_vehicle"
    /\ last.status = "removed"
    /\ last.fee > 0
    /\ \E i \in 1..capacity : slots[i].vehicle_id = last.vehicle_id

\* C10: for every identifier k in the index the cell numbered
\* index[k].slot_number holds exactly the record index[k], and that number
\* lies in 1..capacity.
C10_IndexPointsAtItsCell ==
    \A k \in DOMAIN vehicles :
        /\ vehicles[k].slot_number \in 1..capacity
        /\ slots[vehicles[k].slot_number] = vehicles[k]

\* C10 witness: two cells hold the same identifier and the index holds one
C10_Witness ==
    \E i, j \in 1..capacity :
        /\ i # j
        /\ slots[i] # None
        /\ slots[i].vehicle_id = slots[j].vehicle_id
        /\ slots[i].vehicle_id \in DOMAIN vehicles

\* the ParkingLot object after the step
LotNext == [capacity |-> capacity', slots |-> slots', vehicles |-> vehicles',
            revenue |-> revenue', total_vehicles |-> total_vehicles']

C13_RevenueOnlyByRelease ==
    [][/\ revenue' >= revenue
       /\ revenue' # revenue
             => (last'.op = "remove_vehicle" /\ last'.status = "removed")]_vars

C12_CapacityAtLeastOne ==
    /\ capacity >= 1
    /\ get_occupancy_rate(Lot).raised = ""

\* C15: a successful admit from a state with k >= 1 free cells, followed by
\* the release of any one vehicle of the index, leaves exactly k free cells.
C15_SlotCountConserved ==
    [][/\ (HandlerStep /\ last'.op \in {"park_vehicle", "quick_park"}
                       /\ last'.status = "parked")
             => LET k == Len(get_available_slots(Lot)) IN
                /\ k >= 1
                /\ \A id \in DOMAIN vehicles', t \in Times :
                      LET r == remove_vehicle(LotNext, id, t) IN
                      /\ r.raised = ""
                      /\ Len(get_available_slots(r.lot)) = k
       /\ (HandlerStep /\ last.status = "parked"
                       /\ last'.op = "remove_vehicle" /\ last'.status = "removed")
             => Len(get_available_slots(LotNext))
                  = Len(get_available_slots(Lot)) + 1]_vars

\* C15 witness: an admit has just succeeded, two identifiers can be released
\* and a cell holds a record the index has lost
C15_Witness ==
    /\ last.status = "parked"
    /\ Cardinality(DOMAIN vehicles) >= 2
    /\ Len(get_occupied_slots(Lot)) > Cardinality(DOMAIN vehicles)

IsAscending(seq) == \A i, j \in DOMAIN seq : i < j => seq[i] < seq[j]

\* C16: the occupancy queries agree with each other and change nothing:
\* available and occupied numbers are ascending, disjoint and together
\* 1..capacity, full means none available, empty means none occupied, the
\* rate is occupied / capacity * 100, and the query step leaves the lot alone.
C16_QueriesConsistent ==
    [][(HandlerStep /\ last'.op = "update_real_time_info")
          => LET available == get_available_slots(Lot)
                 occupied == get_occupied_slots(Lot)
                 rate == get_occupancy_rate(Lot)
             IN /\ UNCHANGED lotvars
                /\ IsAscending(available)
                /\ IsAscending(occupied)
                /\ Range(available) \cap Range(occupied) = {}
                /\ Range(available) \cup Range(occupied) = 1..capacity
                /\ is_full(Lot) <=> available = <<>>
                /\ is_empty(Lot) <=> occupied = <<>>
                /\ (last'.status = "FULL") <=> is_full(Lot)
                /\ (last'.status = "EMPTY") <=> is_empty(Lot)
                /\ rate.raised = ""
                /\ rate.num * capacity = Len(occupied) * 100 * rate.den]_vars

\* C16 witness: the status timer has read a partly filled lot in which a
\* cell holds a record the index has lost
C16_Witness ==
    /\ last.op = "update_real_time_info"
    /\ last.status = "PARTIAL"
    /\ Len(get_occupied_slots(Lot)) > Cardinality(DOMAIN vehicles)

\* C17: a record gets its slot number and arrival time once, at admission:
\* an occupied cell is only ever emptied, never overwritten or altered, a
\* filled cell gets a fresh record stamped with its own number and the
\* current time, and a record of the index stays as it is while parked.
C17_SetOnce ==
    [][/\ \A i \in 1..capacity :
             slots[i] # None => slots'[i] \in {slots[i], None}
       /\ \A i \in 1..capacity :
             (slots[i] = None /\ slots'[i] # None)
                => /\ slots'[i].slot_number = i
                   /\ slots'[i].entry_time = now
                   /\ slots'[i].oid > total_vehicles
       /\ \A k \in DOMAIN vehicles \cap DOMAIN vehicles' :
             vehicles'[k].oid = vehicles[k].oid => vehicles'[k] = vehicles[k]]_vars

\* C17 witness: an admit has filled a cell next to records parked earlier
C17_Witness ==
    /\ last.status = "parked"
    /\ total_vehicles > Capacity
    /\ Len(get_occupied_slots(Lot)) >= 2
    /\ \E i \in 1..capacity : slots[i] # None /\ slots[i].entry_time < now

\* C18: admit and release are functions of the lot and their arguments
\* alone: whatever the clock reads, the same call on the same lot gives the
\* same lot, the same record and the same fee.
C18_NoInternalClock ==
    \A t \in Times :
        /\ \A id \in DOMAIN vehicles :
              remove_vehicle(Lot, id, t) = remove_vehicle(Lot, id, now)
        /\ \A id \in RandomIds, ty \in VehicleType :
              park_vehicle(Lot, Vehicle(total_vehicles + 1, id, ty), t)
                 = park_vehicle(Lot, Vehicle(total_vehicles + 1, id, ty), now)

\* C19: the fee of a successful release is never negative and never below
\* one hour at the category's rate, whatever the arrival and exit times,
\* zero elapsed time and an exit before the arrival included.
C19_FeeAtLeastOneHour ==
    [][(HandlerStep /\ last'.op = "remove_vehicle" /\ last'.status = "removed")
          => LET vehicle == vehicles[last'.vehicle_id] IN
             /\ last'.fee >= 0
             /\ last'.fee >= rates[vehicle.vehicle_type]
             /\ now <= vehicle.entry_time
                   => last'.fee = rates[vehicle.vehicle_type]]_vars

\* C19 witness: the SUV, parked at 201 or later, has been released with
\* the clock set back to 0
C19_Witness ==
    /\ last.op = "remove_vehicle"
    /\ last.status = "removed"
    /\ last.vehicle_id = "SUV321"
    /\ now = 0
    /\ total_vehicles = Len(demo_vehicles)
    /\ last.fee = rates["SUV"]

\* C20: park_vehicle succeeds exactly when a cell is free: it then returns a
\* number in 1..capacity and stores the vehicle in that cell and in the
\* index; the only lot-full failure is the is_full() guard, and the raise
\* after the scan loop (line 117) is never reached.
C20_ParkSucceedsIffFree ==
    [][\A id \in AllIds :
          ParkCall(id)
             => LET free == get_available_slots(Lot) IN
                /\ (last'.status = "parked") <=> free # <<>>
                /\ (free # <<>>) <=> ~is_full(Lot)
                /\ last'.status = "parked"
                      => /\ last'.slot \in 1..capacity
                         /\ slots'[last'.slot].vehicle_id = id
                         /\ vehicles'[id] = slots'[last'.slot]
                /\ last'.status # "parked"
                      => last'.status = "ParkingLotFullError"
                /\ \A t \in VehicleType :
                      park_vehicle(Lot, Vehicle(total_vehicles + 1, id, t), now).line
                         # 117]_vars

\* C20 witness: an admit has just taken the last free cell
C20_Witness ==
    /\ last.op \in {"park_vehicle", "quick_park"}
    /\ last.status = "parked"
    /\ is_full(Lot)
    /\ total_vehicles > Capacity

\* C21: the while loop of emergency clear ends from every reachable state:
\* every pass removes exactly one key of the index and swallows no
\* exception, the loop run in one go makes exactly as many passes as the
\* index has entries, and a handler standing in the loop leaves it.
C21_ClearLoopTerminates ==
    /\ [][(phase = "clearing" /\ phase' = "clearing" /\ HandlerStep)
             => /\ last'.status = "iteration"
                /\ last'.vehicle_id \in DOMAIN vehicles
                /\ DOMAIN vehicles' = DOMAIN vehicles \ {last'.vehicle_id}]_vars
    /\ [][(phase = "running" /\ phase' = "clearing")
             => LET loop == clear_loop(Lot, now, 0) IN
                /\ ~loop.spins
                /\ loop.iterations = Cardinality(DOMAIN vehicles)
                /\ DOMAIN loop.lot.vehicles = {}]_vars
    /\ (phase = "clearing") ~> (phase = "running")

\* C21 witness: the handler stands in the loop after a pass, with entries
\* still to remove and a cell holding a record the index has lost
C21_Witness ==
    /\ phase = "clearing"
    /\ last.status = "iteration"
    /\ Cardinality(DOMAIN vehicles) >= 1
    /\ Len(get_occupied_slots(Lot)) > Cardinality(DOMAIN vehicles)

\* C22: in every reachable state the admission counter is at least the
\* number of occupied cells and at least the number of index entries, the
\* number of occupied cells is at most the capacity, and the slot table has
\* exactly capacity cells.
C22_CounterBoundsOccupancy ==
    /\ total_vehicles >= Len(get_occupied_slots(Lot))
    /\ total_vehicles >= get_total_vehicles_parked(Lot)
    /\ Len(get_occupied_slots(Lot)) <= capacity
    /\ Len(slots) = capacity

\* C22 witness: a full lot after a release and a re-admission, with more
\* admissions counted than cells and fewer index entries than cells
C22_Witness ==
    /\ is_full(Lot)
    /\ total_vehicles = MaxAdmissions
    /\ get_total_vehicles_parked(Lot) < Len(get_occupied_slots(Lot))
    /\ revenue > 0

====
